---- MODULE Spec2Model ----
(***************************************************************************)
(* DocuMind: ingestion (pipeline + fast-track), document deletion and the  *)
(* cached chat engine, modelled as a state machine over                    *)
(*   - the vector store  (ChromaDB collection "global_memory"),            *)
(*   - the object store  (MongoDB collection of session documents),        *)
(*   - the response cache (Redis).                                         *)
(*                                                                         *)
(* A vector-store row group stands for the chunks added by one             *)
(* index_chunks call: they are contiguous in insertion order and share     *)
(* file_hash, session_id and source_id, and every delete of the program    *)
(* removes them together, so a group with its count n is exactly n rows.   *)
(***************************************************************************)
EXTENDS Integers, Sequences, FiniteSets, TLC

VARIABLES
    vstore,     \* vector store: Seq of row groups, in insertion order
    mongo,      \* object store: Seq of session documents, in natural order
    history,    \* chat_history collection: per session, its message_count
    redis,      \* response cache: the set of live Redis entries
    now,        \* wall clock, in seconds
    enabled,    \* SemanticCache.enabled, fixed when the cache is constructed
    redisUp,    \* whether Redis answers commands at the moment
    nextDoc,    \* number of document ids handed out so far (uuid4 draws)
    batch,      \* per worker: the process_documents call in progress
    pool,       \* the workers that run batches
    budget,     \* operations of each kind still to be started
    firstIndex, \* ghost: per hash, the first session that ever indexed it and its chunk count
    indexed,    \* ghost: the (hash, session) pairs some completed pipeline call indexed
    purged,     \* ghost: sessions deleted as a whole and not ingested into since
    answered,   \* ghost: chats the LLM answered while the cache was available
    job,        \* POST /extract and extraction_task: upload dir, queue, task, callbacks
    talk,       \* chat calls waiting for the LLM, and per session the messages array
    work,       \* the workspace of one document between extraction and structuring
    workspace,  \* temp/documents: the per-document directories on disk
    ev          \* ghost: what the last operation was and what it returned

chatVars == <<history, redis, now, redisUp, answered, job, talk, work>>
vars == <<vstore, mongo, history, redis, now, enabled, redisUp, nextDoc, batch,
          pool, budget, firstIndex, indexed, purged, answered, job, talk, work,
          workspace, ev>>

----------------------------------------------------------------------------
\* Bounds of the model.

MaxBatches == 3    \* process_documents calls per behaviour
MaxDeletes == 1    \* DELETE /documents calls per behaviour
MaxChunks == 2     \* chunks one document is split into (0 = no text)
MaxChats == 2      \* chat calls per behaviour
MaxCacheOps == 3   \* direct SemanticCache calls per behaviour
ChatDeletes == 1   \* DELETE /documents calls in a chat behaviour
TickStep == 1800   \* seconds one step of the clock advances
MaxTime == 3600    \* the clock stops here

Sessions == {"s1", "s2", "s3"}
AllWorkers == {"w1", "w2"}

\* Inputs of an ingest: a file (identified by its bytes) or a link.
Inputs == { [kind |-> "file", data |-> "B1"], [kind |-> "url", data |-> "U1"] }

\* The shapes of a batch: the items of one process_documents call.
BatchShapes ==
    { <<[kind |-> "file", data |-> "B1"]>>,
      <<[kind |-> "url", data |-> "U1"]>> }

\* Chat messages, as sequences of characters.
Queries == { <<"q">>, <<" ", "Q", " ">> }

\* source_id arguments of direct cache calls, as their ":"-separated parts.
CacheSources == { <<>>, <<"doc1">>, <<"a", "doc1">>, <<"doc2">> }

----------------------------------------------------------------------------
\* Values.

NoSession == ""                      \* Python None / "" (falsy session_id)
NoSource == <<>>                     \* Python None / "" (falsy source_id)
NoRecord == [none |-> TRUE]          \* find_one found nothing
FAST_TRACKED == <<"fast_tracked">>   \* the same-session sentinel
UnknownId == <<"nosuch">>            \* a source_id no ingest produced

\* file: SHA-256 of the bytes; url and youtube: MD5 of the URL string.
ContentHash(inp) ==
    IF inp.kind = "file"
    THEN [alg |-> "sha256", of |-> inp.data]
    ELSE [alg |-> "md5", of |-> inp.data]

Hashes == { ContentHash(i) : i \in Inputs }

\* The k-th document id: "<basename>__<8 hex of uuid4>", unique per draw.
NewDocIdReused(k) == <<"doc1">>
NewDocId(k) == <<"doc" \o ToString(k)>>

DocIds == { NewDocId(k) : k \in 1..nextDoc }

\* session_id or "default"
SessionOrDefault(s) == IF s = NoSession THEN "default" ELSE s

----------------------------------------------------------------------------
\* Vector store (services/memory_service.py).

RECURSIVE SumN(_)
SumN(groups) == IF groups = <<>> THEN 0 ELSE Head(groups).n + SumN(Tail(groups))

\* check_hash_exists: a row with this hash, in this session when one is given.
CheckHashExistsOtherSession(store, h, s) ==
    \E i \in 1..Len(store) :
        /\ store[i].file_hash = h
        /\ (s # NoSession => store[i].session_id # s)
CheckHashExists(store, h, s) ==
    \E i \in 1..Len(store) :
        /\ store[i].file_hash = h
        /\ (s # NoSession => store[i].session_id = s)

\* get_chunks_by_hash: the rows of the hash that belong to the session of the
\* first row returned.
GetChunksByHashUnion(store, h) ==
    SelectSeq(store, LAMBDA g : g.file_hash = h)
GetChunksByHash(store, h) ==
    LET all == SelectSeq(store, LAMBDA g : g.file_hash = h)
    IN  IF all = <<>> THEN <<>>
        ELSE LET first_session == all[1].session_id
             IN  SelectSeq(all, LAMBDA g : g.session_id = first_session)

\* index_chunks: append the rows.
IndexChunks(store, groups) == store \o groups

\* A delete by source_id alone, whatever the session.
DeleteChunksBySourceAnySession(store, x, s) ==
    SelectSeq(store, LAMBDA g : g.source_id # x)

\* delete_chunks_by_source: delete where session_id = s AND source_id = x.
DeleteChunksBySource(store, x, s) ==
    SelectSeq(store, LAMBDA g : ~(g.session_id = s /\ g.source_id = x))

\* delete_chunks_by_session: delete where session_id = s.
DeleteChunksBySession(store, s) ==
    SelectSeq(store, LAMBDA g : g.session_id # s)

ChunkCount(store, h, s) ==
    SumN(SelectSeq(store, LAMBDA g : g.file_hash = h /\ g.session_id = s))

----------------------------------------------------------------------------
\* Object store (services/db_service.py).

DocIndex(coll, s) ==
    IF \E i \in 1..Len(coll) : coll[i].id = s
    THEN CHOOSE i \in 1..Len(coll) : coll[i].id = s
    ELSE 0

HasSession(coll, s) == DocIndex(coll, s) # 0

FilesOf(coll, s) ==
    IF HasSession(coll, s) THEN coll[DocIndex(coll, s)].files ELSE <<>>

\* save_batch_to_mongodb: update_one(upsert) with $push files $each and
\* $inc files_count by the number pushed.
SaveBatchToMongodb(coll, batch_files, s) ==
    IF batch_files = <<>> THEN coll
    ELSE IF HasSession(coll, s)
    THEN [coll EXCEPT ![DocIndex(coll, s)] =
            [@ EXCEPT !.files = @ \o batch_files,
                      !.files_count = @ + Len(batch_files)]]
    ELSE Append(coll, [id |-> s, files |-> batch_files,
                       files_count |-> Len(batch_files)])

\* get_document_by_hash: find_one({"files.file_hash": h}, {"files.$": 1}):
\* the first matching element of the first matching session document.
GetDocumentByHash(coll, h) ==
    LET hits == SelectSeq(coll, LAMBDA d :
                    \E j \in 1..Len(d.files) : d.files[j].file_hash = h)
    IN  IF hits = <<>> THEN NoRecord
        ELSE SelectSeq(hits[1].files, LAMBDA r : r.file_hash = h)[1]

\* $pull {files: {<field>: v}}: remove the elements whose <field> equals v.
PullByField(files, field, v) ==
    SelectSeq(files, LAMBDA r : ~(field \in DOMAIN r /\ r[field] = v))

\* delete_file_from_session: $pull by doc_id and $inc files_count by -1 on the
\* session document, when it exists.
DeleteFileFromSession(coll, s, x) ==
    IF HasSession(coll, s)
    THEN [coll EXCEPT ![DocIndex(coll, s)] =
            [@ EXCEPT !.files = PullByField(@, "doc_id", x),
                      !.files_count = @ - 1]]
    ELSE coll

\* delete_full_session: delete_one({"_id": s}).
DeleteFullSession(coll, s) == SelectSeq(coll, LAMBDA d : d.id # s)

----------------------------------------------------------------------------
\* Response cache (services/cache_service.py).  A key is the sequence of its
\* ":"-separated parts, a source_id likewise, so that appending ":" and a
\* source_id is concatenation.  Source ids carry no glob metacharacters.

response_ttl == 3600
embedding_ttl == 86400

\* str.lower and str.strip on the characters of the model.
LowerChar(c) == IF c = "Q" THEN "q" ELSE c

Lower(q) == [i \in 1..Len(q) |-> LowerChar(q[i])]

RECURSIVE LStrip(_)
LStrip(q) == IF q # <<>> /\ Head(q) = " " THEN LStrip(Tail(q)) ELSE q

RECURSIVE RStrip(_)
RStrip(q) ==
    IF q # <<>> /\ q[Len(q)] = " " THEN RStrip(SubSeq(q, 1, Len(q) - 1)) ELSE q

Strip(q) == RStrip(LStrip(q))

\* _hash_query: SHA-256 of query.lower().strip(), first 16 hex digits (taken
\* as collision-free: the digest is identified with the normalised text).
HashQueryCaseSensitive(query) == <<"sha", Strip(query)>>
HashQuery(query) == <<"sha", Strip(Lower(query))>>

\* _cache_key: "rag:response:<hash>", plus ":<source_id>" when it is truthy.
CacheKey(query_hash, source_id) ==
    IF source_id # NoSource
    THEN <<"rag", "response", query_hash>> \o source_id
    ELSE <<"rag", "response", query_hash>>

\* _embedding_key: "rag:embedding:<hash>".
EmbeddingKey(query_hash) == <<"rag", "embedding", query_hash>>

Available == enabled /\ redisUp

Live(store, t) == { e \in store : e.expires > t }

\* redis.get: the live entry under the key, if any.
RedisGet(store, t, key) ==
    IF \E e \in Live(store, t) : e.key = key
    THEN CHOOSE e \in Live(store, t) : e.key = key
    ELSE NoRecord

\* redis.setex: write the entry, replacing what the key held.
RedisSetex(store, t, key, ttl, value) ==
    { e \in store : e.key # key }
        \cup { [key |-> key, expires |-> t + ttl, value |-> value] }

\* A probe that reads the entry whether or not Redis answers.
GetCachedResponseUnguarded(store, t, query, source_id) ==
    LET cached == RedisGet(store, t, CacheKey(HashQuery(query), source_id))
    IN  IF cached = NoRecord THEN NoRecord
        ELSE [response |-> cached.value, cached |-> TRUE]

\* get_cached_response: the response under the key of (query, source_id),
\* marked _cached; None when the cache is off, fails or has no entry.
GetCachedResponse(store, t, query, source_id) ==
    IF ~Available THEN NoRecord
    ELSE LET cached == RedisGet(store, t, CacheKey(HashQuery(query), source_id))
         IN  IF cached = NoRecord THEN NoRecord
             ELSE [response |-> cached.value, cached |-> TRUE]

\* cache_response: setex of the response for response_ttl seconds, and of the
\* embedding for embedding_ttl seconds when an embedding is passed.
CacheResponse(store, t, query, response, source_id, with_embedding) ==
    IF ~Available THEN store
    ELSE LET query_hash == HashQuery(query)
             cache_key == CacheKey(query_hash, source_id)
             s1 == RedisSetex(store, t, cache_key, response_ttl,
                              [response |-> response, written_for |-> source_id])
         IN  IF with_embedding
             THEN RedisSetex(s1, t, EmbeddingKey(query_hash), embedding_ttl,
                             [response_key |-> cache_key])
             ELSE s1

\* Redis glob match of a key against "rag:response:*:<source_id>": the key
\* starts with "rag:response:", ends with ":<source_id>", and the two do not
\* overlap ("*" matches any run of characters, colons included).
MatchesSourcePattern(key, source_id) ==
    /\ Len(key) >= 3 + Len(source_id)
    /\ SubSeq(key, 1, 2) = <<"rag", "response">>
    /\ SubSeq(key, Len(key) - Len(source_id) + 1, Len(key)) = source_id

\* invalidate_by_source: delete the keys that scan_iter(match=pattern) yields.
InvalidateBySource(store, t, source_id) ==
    IF ~Available THEN store
    ELSE { e \in store : e.expires <= t \/ ~MatchesSourcePattern(e.key, source_id) }

\* clear_all: delete the keys matching "rag:response:*" and "rag:embedding:*".
ClearAll(store) ==
    IF ~Available THEN store
    ELSE { e \in store : ~(e.key[1] = "rag" /\ e.key[2] \in {"response", "embedding"}) }

\* search_similar_chunks as retrieve_context calls it: the rows under the
\* filter on session_id and, when given, source_id.
SearchSimilarChunks(store, session_id, source_id) ==
    SelectSeq(store, LAMBDA g :
        /\ g.session_id = session_id
        /\ (source_id # NoSource => g.source_id = source_id)
        /\ g.n > 0)

----------------------------------------------------------------------------
\* run_agent: the document record (no doc_id field).
ParsedRecord(source_id, kind, h) ==
    [source_id |-> source_id, source |-> kind, file_hash |-> h]

Idle == [active |-> FALSE, session |-> NoSession, tasks |-> <<>>]

NeverIndexed == [session |-> NoSession, n |-> 0]

\* No callback URL (None or the empty default of settings.worker).
NoCallback == <<>>

\* The worker between two tasks.
NoTask == [pc |-> "idle", req |-> 0, callback_url |-> NoCallback,
           file_paths |-> <<>>, links |-> <<>>, mock_files |-> <<>>,
           returned |-> FALSE, raised |-> FALSE]

\* Empty upload directory and queue, nothing posted, nothing dispatched.
IdleJob == [disk |-> {}, saved |-> 0, queue |-> <<>>, task |-> NoTask,
            posts |-> <<>>, dispatched |-> <<>>, accepted |-> {}, ended |-> {}]

EmptyStores ==
    /\ vstore = <<>>
    /\ mongo = <<>>
    /\ nextDoc = 0
    /\ firstIndex = [h \in Hashes |-> NeverIndexed]
    /\ indexed = {}

\* No document workspace under examination.
NoWork == [pc |-> "none"]

\* Nothing said, cached, queued or running.
InitData ==
    /\ history = [s \in Sessions |-> 0]
    /\ redis = {}
    /\ now = 0
    /\ redisUp = TRUE
    /\ batch = [w \in AllWorkers |-> Idle]
    /\ purged = {}
    /\ answered = {}
    /\ job = IdleJob
    /\ workspace = {}
    /\ talk = [waiting |-> {}, messages |-> [s \in Sessions |-> <<>>]]
    /\ ev = [op |-> "init"]

\* One process runs batches.
InitCore ==
    /\ InitData
    /\ pool = {"w1"}

InitServices ==
    /\ InitCore
    /\ work = NoWork

\* The ingestion service: batches and deletes, the cache connected.
Init ==
    /\ EmptyStores
    /\ InitServices
    /\ enabled = TRUE
    /\ budget = [batches |-> MaxBatches, deletes |-> MaxDeletes,
                 chats |-> 0, cache_ops |-> 0]

----------------------------------------------------------------------------
\* process_documents (controllers/extraction_controller.py) and pipeline
\* (pipeline/document_pipeline.py).

Task(inp) == [input |-> inp, pc |-> "queued", result |-> [none |-> TRUE]]

SetTask(w, i, pc, result) ==
    batch' = [batch EXCEPT ![w].tasks[i] = [@ EXCEPT !.pc = pc, !.result = result]]

\* The sessions that hold rows of hash h.
Holders(store, h) ==
    { store[k].session_id : k \in { k \in 1..Len(store) : store[k].file_hash = h } }

\* The workspace directory temp/documents/<name>__<id> of item i of the batch
\* worker w runs (utils/file_utils.py create_document_folder and the
\* extractors' own makedirs); returned tells that the batch has responded.
Folder(w, i) == [by |-> w, item |-> i, returned |-> FALSE]

\* l.192-197 and l.228-234: temp_paths_to_clean holds the base_dir of every
\* gathered result that is a directory, and each is removed; a directory of
\* an item whose pipeline call raised is never in the list.
CleanUp(disk, w, ts) ==
    LET listed == { Folder(w, i) : i \in { i \in 1..Len(ts) :
                        ts[i].pc = "done" /\ ts[i].result.isdir } }
        kept == disk \ listed
    IN  { IF d.by = w THEN [d EXCEPT !.returned = TRUE] ELSE d : d \in kept }

\* process_documents up to the gather: one pipeline coroutine per item.
BatchStart(w, s, items) ==
    /\ w \in pool
    /\ ~batch[w].active
    /\ budget.batches > 0
    /\ budget' = [budget EXCEPT !.batches = @ - 1]
    /\ batch' = [batch EXCEPT ![w] =
                    [active |-> TRUE, session |-> s,
                     tasks |-> [i \in 1..Len(items) |-> Task(items[i])]]]
    /\ purged' = purged \ {s}
    /\ ev' = [op |-> "batch_start", session |-> s]
    /\ UNCHANGED <<vstore, mongo, nextDoc, firstIndex, indexed, pool, enabled, workspace>>
    /\ UNCHANGED chatVars

\* pipeline, from its entry to the first await: input detection and, for
\* file inputs, the fast-track section.
PipelineStart(w, i) ==
    /\ batch[w].active
    /\ i \in 1..Len(batch[w].tasks)
    /\ batch[w].tasks[i].pc = "queued"
    /\ LET s == batch[w].session
           inp == batch[w].tasks[i].input
           h == ContentHash(inp)
           data == GetChunksByHash(vstore, h)
           existing_doc == GetDocumentByHash(mongo, h)
       IN  IF inp.kind = "file" /\ CheckHashExists(vstore, h, s)
           THEN \* 1. already indexed in this session
                /\ SetTask(w, i, "done", [base |-> FAST_TRACKED, ref |-> s, isdir |-> FALSE])
                /\ ev' = [op |-> "pipeline_return", outcome |-> "fast_tracked",
                          session |-> s, hash |-> h, ret |-> <<FAST_TRACKED, s>>]
                /\ UNCHANGED <<vstore, mongo, indexed>>
           ELSE IF inp.kind = "file" /\ CheckHashExists(vstore, h, NoSession)
                   /\ data # <<>>
           THEN \* 2. indexed under another session: clone rows and record
                /\ vstore' = IndexChunks(vstore,
                       [k \in 1..Len(data) |->
                           [data[k] EXCEPT !.session_id = SessionOrDefault(s)]])
                /\ mongo' = IF existing_doc # NoRecord
                            THEN SaveBatchToMongodb(mongo, <<existing_doc>>, s)
                            ELSE mongo
                /\ indexed' = indexed \cup {[hash |-> h, session |-> s]}
                /\ SetTask(w, i, "done",
                       [base |-> data[1].source_id, ref |-> s, isdir |-> FALSE])
                /\ ev' = [op |-> "pipeline_return", outcome |-> "cloned",
                          session |-> s, hash |-> h,
                          ret |-> <<data[1].source_id, s>>,
                          added |-> SumN(data), copied |-> existing_doc,
                          holders |-> Holders(vstore, h)]
           ELSE \* 3. no short-circuit: on to the extractor
                /\ SetTask(w, i, "extracting", [none |-> TRUE])
                /\ ev' = [op |-> "pipeline_extract", session |-> s, hash |-> h]
                /\ UNCHANGED <<vstore, mongo, indexed>>
    /\ purged' = purged \ {batch[w].session}
    /\ UNCHANGED <<nextDoc, pool, budget, firstIndex, enabled, workspace>>
    /\ UNCHANGED chatVars

\* The extractor raises (unsupported type, parser failure, unreachable URL).
ExtractFail(w, i) ==
    /\ batch[w].active
    /\ i \in 1..Len(batch[w].tasks)
    /\ batch[w].tasks[i].pc = "extracting"
    /\ SetTask(w, i, "failed", [error |-> "extraction"])
    /\ \E made \in BOOLEAN :
         workspace' = IF made THEN workspace \cup {Folder(w, i)} ELSE workspace
    /\ ev' = [op |-> "pipeline_raise", session |-> batch[w].session,
              stage |-> "extraction"]
    /\ UNCHANGED <<vstore, mongo, nextDoc, pool, budget, firstIndex, indexed,
                   purged, enabled>>
    /\ UNCHANGED chatVars

\* pipeline after extraction and run_agent: the record is built (save_to_mongo
\* is False under the controller) and the chunks are indexed unless the hash
\* is already in the vector store; n is the number of chunks of the text.
PipelineFinish(w, i) ==
    /\ batch[w].active
    /\ i \in 1..Len(batch[w].tasks)
    /\ batch[w].tasks[i].pc = "extracting"
    /\ \E n \in 0..MaxChunks :
         LET s == batch[w].session
             inp == batch[w].tasks[i].input
             h == ContentHash(inp)
             doc_id == NewDocId(nextDoc + 1)
             parsed == ParsedRecord(doc_id, inp.kind, h)
             skip == CheckHashExists(vstore, h, NoSession)
             stored == ~skip /\ n > 0
         IN  /\ nextDoc' = nextDoc + 1
             /\ vstore' = IF stored
                          THEN IndexChunks(vstore,
                                 <<[file_hash |-> h,
                                    session_id |-> SessionOrDefault(s),
                                    source_id |-> doc_id, n |-> n]>>)
                          ELSE vstore
             /\ firstIndex' = IF stored /\ firstIndex[h] = NeverIndexed
                              THEN [firstIndex EXCEPT ![h] = [session |-> s, n |-> n]]
                              ELSE firstIndex
             /\ indexed' = IF stored
                           THEN indexed \cup {[hash |-> h, session |-> s]}
                           ELSE indexed
             /\ SetTask(w, i, "done", [base |-> doc_id, ref |-> parsed, isdir |-> TRUE,
                                        nonempty |-> n > 0])
             /\ workspace' = workspace \cup {Folder(w, i)}
             /\ ev' = [op |-> "pipeline_return", outcome |-> "extracted",
                       session |-> s, hash |-> h, ret |-> <<doc_id, parsed>>]
    /\ purged' = purged \ {batch[w].session}
    /\ UNCHANGED <<mongo, pool, budget, enabled>>
    /\ UNCHANGED chatVars

\* A status builder that reports every gathered result as a success.
DocumentStatusAllSuccess(t) ==
    [status |-> "success", input |-> t.input,
     source_id |-> IF t.pc = "failed" THEN <<>> ELSE t.result.base,
     fast_tracked |-> FALSE]

\* The status entry process_documents builds for one gathered result; error
\* is str(result) of the exception the item's pipeline call raised.
DocumentStatus(t) ==
    IF t.pc = "failed"
    THEN [status |-> "error", input |-> t.input, error |-> t.result.error]
    ELSE [status |-> "success", input |-> t.input,
          source_id |-> t.result.base, fast_tracked |-> ~t.result.isdir]

\* process_documents after the gather: statuses, the batch save of the newly
\* processed records, and the response.
BatchFinish(w) ==
    /\ batch[w].active
    /\ \A i \in 1..Len(batch[w].tasks) : batch[w].tasks[i].pc \in {"done", "failed"}
    /\ LET s == batch[w].session
           ts == batch[w].tasks
           fresh == SelectSeq(ts, LAMBDA t : t.pc = "done" /\ t.result.isdir)
           json_paths == [k \in 1..Len(fresh) |-> fresh[k].result.ref]
       IN  /\ mongo' = SaveBatchToMongodb(mongo, json_paths, s)
           /\ ev' = [op |-> "batch_done", session |-> s,
                     documents |-> [k \in 1..Len(ts) |-> DocumentStatus(ts[k])]]
    /\ workspace' = CleanUp(workspace, w, batch[w].tasks)
    /\ batch' = [batch EXCEPT ![w] = Idle]
    /\ purged' = purged \ {batch[w].session}
    /\ UNCHANGED <<vstore, nextDoc, pool, budget, firstIndex, indexed, enabled>>
    /\ UNCHANGED chatVars

----------------------------------------------------------------------------
\* DELETE /documents (routes/delete.py).

HasRecord(coll, s, x) ==
    \E j \in 1..Len(FilesOf(coll, s)) : FilesOf(coll, s)[j].source_id = x

\* A session id with surrounding whitespace, as a caller may send it; the
\* ingest and chat routes take a session id as it comes.
PaddedSession == "s1 "

\* session_id.strip() (routes/delete.py l.32, memory_service.py l.309 and
\* l.340, db_service.py l.171 and l.215) over the session ids of the model.
StripId(session_id) == IF session_id = PaddedSession THEN "s1" ELSE session_id

\* With source_id: delete_chunks_by_source, then delete_file_from_session,
\* both on the stripped ids.
DeleteDocument(s, x) ==
    /\ budget.deletes > 0
    /\ budget' = [budget EXCEPT !.deletes = @ - 1]
    /\ vstore' = DeleteChunksBySource(vstore, Strip(x), StripId(s))
    /\ mongo' = DeleteFileFromSession(mongo, StripId(s), Strip(x))
    /\ ev' = [op |-> "delete_document", session |-> StripId(s), source_id |-> Strip(x),
              had_record |-> HasRecord(mongo, StripId(s), Strip(x))]
    /\ UNCHANGED <<nextDoc, batch, pool, firstIndex, indexed, purged, enabled, workspace>>
    /\ UNCHANGED chatVars

\* Without source_id: delete_chunks_by_session, then delete_full_session.
DeleteSession(s) ==
    /\ budget.deletes > 0
    /\ budget' = [budget EXCEPT !.deletes = @ - 1]
    /\ vstore' = DeleteChunksBySession(vstore, StripId(s))
    /\ mongo' = DeleteFullSession(mongo, StripId(s))
    /\ purged' = purged \cup {StripId(s)}
    /\ ev' = [op |-> "delete_session", session |-> StripId(s)]
    /\ UNCHANGED <<nextDoc, batch, pool, firstIndex, indexed, enabled, workspace>>
    /\ UNCHANGED chatVars

----------------------------------------------------------------------------
Next ==
    \/ \E w \in AllWorkers, s \in Sessions, items \in BatchShapes : BatchStart(w, s, items)
    \/ \E w \in AllWorkers : \E i \in 1..Len(batch[w].tasks) : PipelineStart(w, i)
    \/ \E w \in AllWorkers : \E i \in 1..Len(batch[w].tasks) : ExtractFail(w, i)
    \/ \E w \in AllWorkers : \E i \in 1..Len(batch[w].tasks) : PipelineFinish(w, i)
    \/ \E w \in AllWorkers : BatchFinish(w)
    \/ \E s \in Sessions, x \in DocIds \cup {UnknownId} : DeleteDocument(s, x)
    \/ \E s \in Sessions : DeleteSession(s)

Spec == Init /\ [][Next]_vars

----------------------------------------------------------------------------
\* ChatService.chat (services/chat_service.py) and the cache routes.

ingestVars == <<vstore, mongo, nextDoc, batch, pool, firstIndex, indexed, purged, enabled,
                job, talk, work, workspace>>

\* One chat call: cache probe; on a miss, retrieval, the LLM call, the history
\* write and the cache write.  llm_ok says whether the LLM answers or raises.
Chat(q, s, x, llm_ok) ==
    /\ budget.chats > 0
    /\ budget' = [budget EXCEPT !.chats = @ - 1]
    /\ LET session_id == SessionOrDefault(s)
           id == MaxChats + 1 - budget.chats
           cached_response == GetCachedResponse(redis, now, q, x)
           results == SearchSimilarChunks(vstore, session_id, x)
           result == [session_id |-> session_id, context_found |-> results # <<>>]
           call == [op |-> "chat", id |-> id, query |-> q, session |-> session_id,
                    source |-> x, at |-> now, available |-> Available]
       IN  IF cached_response # NoRecord
           THEN /\ ev' = call @@ [cached |-> TRUE, vector_query |-> FALSE,
                                  llm_call |-> FALSE, error |-> FALSE,
                                  context_found |-> cached_response.response.response.context_found,
                                  returned_session |-> cached_response.response.response.session_id]
                /\ UNCHANGED <<history, redis, answered>>
           ELSE IF llm_ok
           THEN /\ history' = IF session_id # "default"
                              THEN [history EXCEPT ![session_id] = @ + 2]
                              ELSE history
                /\ redis' = CacheResponse(redis, now, q, result, x, FALSE)
                /\ answered' = IF Available
                               THEN answered \cup {[id |-> id, query |-> q, source |-> x,
                                                    at |-> now, live |-> TRUE]}
                               ELSE answered
                /\ ev' = call @@ [cached |-> FALSE, vector_query |-> TRUE,
                                  llm_call |-> TRUE, error |-> FALSE,
                                  context_found |-> result.context_found,
                                  returned_session |-> result.session_id]
           ELSE /\ ev' = call @@ [cached |-> FALSE, vector_query |-> TRUE,
                                  llm_call |-> TRUE, error |-> TRUE,
                                  context_found |-> result.context_found,
                                  returned_session |-> session_id]
                /\ UNCHANGED <<history, redis, answered>>
    /\ UNCHANGED <<now, redisUp>>
    /\ UNCHANGED ingestVars

\* DELETE /cache: clear_all.
ClearCache ==
    /\ redis' = ClearAll(redis)
    /\ answered' = IF Available
                   THEN { [a EXCEPT !.live = FALSE] : a \in answered }
                   ELSE answered
    /\ ev' = [op |-> "clear_cache"]
    /\ UNCHANGED <<history, now, redisUp, budget>>
    /\ UNCHANGED ingestVars

\* Direct call of SemanticCache.cache_response.
CacheResponseCall(q, x, with_embedding) ==
    /\ budget.cache_ops > 0
    /\ budget' = [budget EXCEPT !.cache_ops = @ - 1]
    /\ redis' = CacheResponse(redis, now, q,
                    [session_id |-> "default", context_found |-> TRUE], x, with_embedding)
    /\ ev' = [op |-> "cache_response", source |-> x]
    /\ UNCHANGED <<history, now, redisUp, answered>>
    /\ UNCHANGED ingestVars

\* Direct call of SemanticCache.invalidate_by_source.
InvalidateCall(x) ==
    /\ budget.cache_ops > 0
    /\ budget' = [budget EXCEPT !.cache_ops = @ - 1]
    /\ redis' = InvalidateBySource(redis, now, x)
    /\ ev' = [op |-> "invalidate", source |-> x, before |-> redis,
              available |-> Available]
    /\ UNCHANGED <<history, now, redisUp, answered>>
    /\ UNCHANGED ingestVars

\* Time passes; Redis drops the entries whose TTL has run out.
Tick ==
    /\ now < MaxTime
    /\ now' = now + TickStep
    /\ redis' = Live(redis, now')
    /\ UNCHANGED <<history, redisUp, answered, budget, ev>>
    /\ UNCHANGED ingestVars

\* Redis becomes unreachable, or reachable again.
RedisFlip ==
    /\ redisUp' = ~redisUp
    /\ UNCHANGED <<history, redis, now, answered, budget, ev>>
    /\ UNCHANGED ingestVars

\* The stores after one file has been ingested into session s and split
\* into one chunk: the row indexed by pipeline and the record saved by
\* process_documents.
OneDocument(s) ==
    LET inp == [kind |-> "file", data |-> "B1"]
        h == ContentHash(inp)
        doc_id == NewDocId(1)
    IN  /\ vstore = IndexChunks(<<>>, <<[file_hash |-> h, session_id |-> SessionOrDefault(s),
                                         source_id |-> doc_id, n |-> 1]>>)
        /\ mongo = SaveBatchToMongodb(<<>>, <<ParsedRecord(doc_id, inp.kind, h)>>, s)
        /\ nextDoc = 1
        /\ firstIndex = [g \in Hashes |-> IF g = h THEN [session |-> s, n |-> 1]
                                                  ELSE NeverIndexed]
        /\ indexed = {[hash |-> h, session |-> s]}

\* The chat service over a store that is empty or holds one document.
InitChat ==
    /\ EmptyStores \/ OneDocument("s1")
    /\ InitServices
    /\ enabled \in BOOLEAN
    /\ budget = [batches |-> 0, deletes |-> ChatDeletes,
                 chats |-> MaxChats, cache_ops |-> 0]

NextChat ==
    \/ \E s \in Sessions, x \in DocIds \cup {UnknownId} : DeleteDocument(s, x)
    \/ \E s \in Sessions : DeleteSession(s)
    \/ \E q \in Queries, s \in Sessions \cup {NoSession}, x \in DocIds \cup {NoSource},
          llm_ok \in BOOLEAN : Chat(q, s, x, llm_ok)
    \/ ClearCache
    \/ Tick
    \/ RedisFlip

SpecChat == InitChat /\ [][NextChat]_vars

\* The SemanticCache class on its own.
InitCache ==
    /\ EmptyStores
    /\ InitServices
    /\ enabled \in BOOLEAN
    /\ budget = [batches |-> 0, deletes |-> 0, chats |-> 0, cache_ops |-> MaxCacheOps]

NextCache ==
    \/ \E q \in Queries, x \in CacheSources, with_embedding \in BOOLEAN :
          CacheResponseCall(q, x, with_embedding)
    \/ \E x \in CacheSources \ {NoSource} : InvalidateCall(x)
    \/ ClearCache
    \/ Tick
    \/ RedisFlip

SpecCache == InitCache /\ [][NextCache]_vars

----------------------------------------------------------------------------
\* Properties of ingestion and deletion (specification Spec).

RowsOf(store, h, s) ==
    SelectSeq(store, LAMBDA g : g.file_hash = h /\ g.session_id = s)

TaskHash(w, i) == ContentHash(batch[w].tasks[i].input)

FileStart(w, i) == PipelineStart(w, i) /\ batch[w].tasks[i].input.kind = "file"

ReturnsSentinelUntouched(w, i) ==
    /\ batch'[w].tasks[i].pc = "done"
    /\ batch'[w].tasks[i].result.base = FAST_TRACKED
    /\ batch'[w].tasks[i].result.ref = batch[w].session
    /\ vstore' = vstore
    /\ mongo' = mongo
    /\ nextDoc' = nextDoc

OnlyFastTracked(w) ==
    \A i \in 1..Len(batch[w].tasks) :
        /\ batch[w].tasks[i].pc = "done"
        /\ batch[w].tasks[i].result.base = FAST_TRACKED

SentinelBatchSavesNothing ==
    \A w \in AllWorkers : (BatchFinish(w) /\ OnlyFastTracked(w)) => mongo' = mongo

\* C1, as stated: once some pipeline call has indexed a chunk of hash H under
\* session S, every later pipeline call for the same bytes and S returns
\* ("fast_tracked", S) without reaching an extractor, adds no chunk and
\* leaves the session documents as they are.
C1_EveryLaterCallFastTracked ==
    [][ /\ \A w \in AllWorkers : \A i \in 1..Len(batch[w].tasks) :
             (FileStart(w, i)
                 /\ [hash |-> TaskHash(w, i), session |-> batch[w].session] \in indexed)
             => ReturnsSentinelUntouched(w, i)
        /\ SentinelBatchSavesNothing ]_vars

\* C1, amended: a pipeline call for a file whose hash H still has a chunk
\* under its session S in the vector store returns ("fast_tracked", S)
\* without reaching an extractor, adds no chunk, and neither it nor its batch
\* changes any session document (files, files_count).
C1_FastTrackWhileIndexed ==
    [][ /\ \A w \in AllWorkers : \A i \in 1..Len(batch[w].tasks) :
             (FileStart(w, i)
                 /\ \E k \in 1..Len(vstore) :
                       /\ vstore[k].file_hash = TaskHash(w, i)
                       /\ vstore[k].session_id = batch[w].session
                       /\ vstore[k].n >= 1)
             => ReturnsSentinelUntouched(w, i)
        /\ SentinelBatchSavesNothing ]_vars

C1_Witness ==
    /\ ev.op = "pipeline_return"
    /\ ev.outcome = "fast_tracked"
    /\ HasSession(mongo, ev.session)

\* C2: after every ingest that returns successfully for hash H in session S,
\* the vector store holds at least one chunk with (H, S), and every such chunk
\* carries the source_id reported for the ingest.
C2_SuccessfulIngestIsIndexed ==
    ev.op = "pipeline_return" =>
        LET rows == RowsOf(vstore, ev.hash, SessionOrDefault(ev.session))
        IN  /\ rows # <<>>
            /\ \A k \in 1..Len(rows) : rows[k].source_id = ev.ret[1]

\* C3: every session document has files_count = len(files).
C3_FilesCountIsLength ==
    \A k \in 1..Len(mongo) : mongo[k].files_count = Len(mongo[k].files)

\* The session owning the earliest surviving row of hash h.
EarliestHolder(store, h) ==
    LET ks == { k \in 1..Len(store) : store[k].file_hash = h }
    IN  store[CHOOSE k \in ks : \A j \in ks : k <= j].session_id

RecordPositions ==
    UNION { { <<i, j>> : j \in 1..Len(mongo[i].files) } : i \in 1..Len(mongo) }

RecordAt(p) == mongo[p[1]].files[p[2]]

\* C5, as stated: no two document records have the same source_id.
C5_SourceIdUnique ==
    \A p \in RecordPositions, r \in RecordPositions :
        p # r => RecordAt(p).source_id # RecordAt(r).source_id

SharedIdOnlyByCopy ==
    \A p \in RecordPositions, r \in RecordPositions :
        RecordAt(p).source_id = RecordAt(r).source_id => RecordAt(p) = RecordAt(r)

ExtractionDrawsUnusedId ==
    \A w \in AllWorkers : \A i \in 1..Len(batch[w].tasks) :
        PipelineFinish(w, i) =>
            /\ \A p \in RecordPositions :
                   RecordAt(p).source_id # batch'[w].tasks[i].result.base
            /\ \A k \in 1..Len(vstore) :
                   vstore[k].source_id # batch'[w].tasks[i].result.base

\* C5, amended: two document records have the same source_id only when one
\* is the fast-track copy of the other (they are the same record), and every
\* extraction gives its record a source_id no record or chunk carries yet.
C5_SourceIdSharedOnlyByCopies ==
    []SharedIdOnlyByCopy /\ [][ExtractionDrawsUnusedId]_vars

C5_Witness ==
    \E p \in RecordPositions, r \in RecordPositions :
        /\ p[1] # r[1]
        /\ RecordAt(p).source_id = RecordAt(r).source_id

\* C6: a cross-session fast-track that finds a record of H in the object
\* store appends that record to the session's files and returns that
\* record's source_id together with the session.
C6_CloneReturnsCopiedRecordId ==
    (ev.op = "pipeline_return" /\ ev.outcome = "cloned" /\ ev.copied # NoRecord) =>
        /\ FilesOf(mongo, ev.session) # <<>>
        /\ FilesOf(mongo, ev.session)[Len(FilesOf(mongo, ev.session))] = ev.copied
        /\ ev.ret = <<ev.copied.source_id, ev.session>>

\* C9: after DELETE /documents with session S and the source_id X of a record
\* in S's files, no chunk with (S, X) is left and S's files no longer holds
\* the record X.
C9_DeleteDocumentRemovesChunksAndRecord ==
    (ev.op = "delete_document" /\ ev.had_record) =>
        /\ \A k \in 1..Len(vstore) :
               ~(vstore[k].session_id = ev.session /\ vstore[k].source_id = ev.source_id)
        /\ ~HasRecord(mongo, ev.session, ev.source_id)

----------------------------------------------------------------------------
\* Properties of the cached chat (specification SpecChat).

\* The same query up to case and surrounding whitespace.
SameQuery(q1, q2) == Lower(Strip(q1)) = Lower(Strip(q2))

\* The earlier chats the LLM answered, with the query and source_id of the
\* last chat call, whose response TTL had not run out when it was made.
EarlierAnswers ==
    { a \in answered :
        /\ a.id < ev.id
        /\ SameQuery(a.query, ev.query)
        /\ a.source = ev.source
        /\ ev.at < a.at + response_ttl }

ServedFromCache == ev.cached /\ ~ev.vector_query /\ ~ev.llm_call

\* C7, as stated: once chat(q, X) has completed with an LLM answer while the
\* cache was available, every later chat with the same query (up to case and
\* surrounding whitespace) and the same X before the TTL runs out is served
\* from the cache: _cached is set, no vector query and no LLM call are made.
C7_RepeatServedFromCache ==
    (ev.op = "chat" /\ EarlierAnswers # {}) => ServedFromCache

\* C7, amended: the later chat is served from the cache provided the cache is
\* available when it is made and DELETE /cache has not cleared the entry in
\* between.
C7_RepeatServedWhileEntryKept ==
    (ev.op = "chat" /\ ev.available /\ \E a \in EarlierAnswers : a.live)
        => ServedFromCache

C7_Witness ==
    /\ ev.op = "chat"
    /\ ev.cached
    /\ ev.at > 0
    /\ \E a \in EarlierAnswers : a.live /\ a.query # ev.query

\* C8: once DELETE /documents has removed session S as a whole, the vector
\* store holds no chunk of S, the object store holds no session document S,
\* and every chat in session S reports context_found = false.
C8_DeletedSessionHasNoContext ==
    /\ \A s \in purged :
          /\ \A k \in 1..Len(vstore) : vstore[k].session_id # s
          /\ ~HasSession(mongo, s)
    /\ (ev.op = "chat" /\ ev.session \in purged) => ~ev.context_found

----------------------------------------------------------------------------
\* Properties of the SemanticCache class (specification SpecCache).

\* C10: invalidate_by_source(X) deletes the response entries written for
\* source_id X and nothing else: responses written without a source_id or
\* for another source_id, and the embedding entries, stay as they were.
C10_InvalidateRemovesExactlyOwnEntries ==
    (ev.op = "invalidate" /\ ev.available) =>
        redis = { e \in ev.before :
                    ~(e.key[2] = "response" /\ e.value.written_for = ev.source) }

----------------------------------------------------------------------------
\* Batches of several items: process_documents fans the items out with
\* asyncio.gather(return_exceptions=True) (controllers/extraction_controller.py)
\* and the later stages of pipeline (pipeline/document_pipeline.py l.283-416).

PairBatches == 2

BatchSessions == {"s1", "s2"}

\* Two submissions in one request: the same bytes twice, a file and a link.
PairShapes ==
    { << [kind |-> "file", data |-> "B1"], [kind |-> "file", data |-> "B1"] >>,
      << [kind |-> "file", data |-> "B1"], [kind |-> "url", data |-> "U1"] >>,
      << [kind |-> "url", data |-> "U1"], [kind |-> "file", data |-> "B1"] >> }

\* Stages after extraction that run outside any try block: maybe_run_ocr
\* (l.289) and run_agent (l.309).
UnguardedStages == {"ocr", "structuring"}

\* Stages after extraction whose exceptions are caught and logged: VLM
\* (l.294-299), table analysis (l.302-306), chunking and indexing (l.321-416).
GuardedStages == {"vlm", "table_analysis", "chunking", "indexing"}

\* gather schedules the coroutines in submission order and each runs up to its
\* first suspension: item i starts once the items before it have started.
GatherStart(w, i) ==
    /\ \A j \in 1..(i - 1) : batch[w].tasks[j].pc # "queued"
    /\ PipelineStart(w, i)

\* The first suspension of an item that reaches run_agent is the LLM call, so
\* every sibling has started before such an item returns.
AllStarted(w) == \A j \in 1..Len(batch[w].tasks) : batch[w].tasks[j].pc # "queued"

GatherFinish(w, i) == AllStarted(w) /\ PipelineFinish(w, i)

\* A stage outside any try block raises after the extractor returned: the
\* exception leaves pipeline and gather hands it back as the item's result.
StageRaise(w, i, stage) ==
    /\ batch[w].active
    /\ i \in 1..Len(batch[w].tasks)
    /\ batch[w].tasks[i].pc = "extracting"
    /\ stage \in UnguardedStages
    /\ SetTask(w, i, "failed", [error |-> stage])
    /\ workspace' = workspace \cup {Folder(w, i)}
    /\ ev' = [op |-> "pipeline_raise", session |-> batch[w].session,
              stage |-> stage]
    /\ UNCHANGED <<vstore, mongo, nextDoc, pool, budget, firstIndex, indexed,
                   purged, enabled>>
    /\ UNCHANGED chatVars

\* A stage inside a try block raises: the exception is logged and pipeline
\* goes on to return the record; a failure of chunking or indexing leaves the
\* vector store as it was.
StageRecovered(w, i, stage) ==
    /\ batch[w].active
    /\ i \in 1..Len(batch[w].tasks)
    /\ batch[w].tasks[i].pc = "extracting"
    /\ stage \in GuardedStages
    /\ AllStarted(w)
    /\ \E n \in 0..MaxChunks :
         LET s == batch[w].session
             inp == batch[w].tasks[i].input
             h == ContentHash(inp)
             doc_id == NewDocId(nextDoc + 1)
             parsed == ParsedRecord(doc_id, inp.kind, h)
             skip == CheckHashExists(vstore, h, NoSession)
             stored == ~skip /\ n > 0 /\ stage \notin {"chunking", "indexing"}
         IN  /\ nextDoc' = nextDoc + 1
             /\ vstore' = IF stored
                          THEN IndexChunks(vstore,
                                 <<[file_hash |-> h,
                                    session_id |-> SessionOrDefault(s),
                                    source_id |-> doc_id, n |-> n]>>)
                          ELSE vstore
             /\ firstIndex' = IF stored /\ firstIndex[h] = NeverIndexed
                              THEN [firstIndex EXCEPT ![h] = [session |-> s, n |-> n]]
                              ELSE firstIndex
             /\ indexed' = IF stored
                           THEN indexed \cup {[hash |-> h, session |-> s]}
                           ELSE indexed
             /\ SetTask(w, i, "done", [base |-> doc_id, ref |-> parsed, isdir |-> TRUE,
                                        nonempty |-> n > 0])
             /\ workspace' = workspace \cup {Folder(w, i)}
             /\ ev' = [op |-> "pipeline_return", outcome |-> "extracted",
                       session |-> s, hash |-> h, ret |-> <<doc_id, parsed>>,
                       recovered |-> stage]
    /\ purged' = purged \ {batch[w].session}
    /\ UNCHANGED <<mongo, pool, budget, enabled>>
    /\ UNCHANGED chatVars

InitBatch ==
    /\ EmptyStores
    /\ InitServices
    /\ enabled = TRUE
    /\ budget = [batches |-> PairBatches, deletes |-> 0, chats |-> 0, cache_ops |-> 0]

NextBatch ==
    \/ \E w \in AllWorkers, s \in BatchSessions, items \in PairShapes : BatchStart(w, s, items)
    \/ \E w \in AllWorkers : \E i \in 1..Len(batch[w].tasks) : GatherStart(w, i)
    \/ \E w \in AllWorkers : \E i \in 1..Len(batch[w].tasks) : ExtractFail(w, i)
    \/ \E w \in AllWorkers : \E i \in 1..Len(batch[w].tasks) :
          \E stage \in UnguardedStages : StageRaise(w, i, stage)
    \/ \E w \in AllWorkers : \E i \in 1..Len(batch[w].tasks) :
          \E stage \in GuardedStages : StageRecovered(w, i, stage)
    \/ \E w \in AllWorkers : \E i \in 1..Len(batch[w].tasks) : GatherFinish(w, i)
    \/ \E w \in AllWorkers : BatchFinish(w)

SpecBatch == InitBatch /\ [][NextBatch]_vars

----------------------------------------------------------------------------
\* Properties of SpecBatch.

\* The step in which process_documents of worker w returns its response.
Responds(w) == batch[w].active /\ ~batch'[w].active

\* C11: when a batch returns, its response has one status entry per submitted
\* item, in submission order; the entry of an item whose pipeline call raised
\* is "error" with the exception's text, every other entry is "success"; and
\* the record of every sibling that was extracted is in the session's files,
\* whatever happened to the other items.
C11_BatchIsolation ==
    [][\A w \in AllWorkers : Responds(w) =>
          LET ts == batch[w].tasks
              docs == ev'.documents
              saved == FilesOf(mongo', batch[w].session)
          IN  /\ ev'.op = "batch_done"
              /\ Len(docs) = Len(ts)
              /\ \A k \in 1..Len(ts) :
                    /\ docs[k].input = ts[k].input
                    /\ ts[k].pc = "failed" =>
                          docs[k].status = "error" /\ docs[k].error = ts[k].result.error
                    /\ ts[k].pc = "done" => docs[k].status = "success"
                    /\ ts[k].pc = "done" /\ ts[k].result.isdir =>
                          \E j \in 1..Len(saved) : saved[j] = ts[k].result.ref
    ]_vars

\* A batch answered with a failed first item and a persisted second item.
C11_Witness ==
    /\ ev.op = "batch_done"
    /\ Len(ev.documents) = 2
    /\ ev.documents[1].status = "error"
    /\ ev.documents[2].status = "success"
    /\ \E j \in 1..Len(FilesOf(mongo, ev.session)) :
          FilesOf(mongo, ev.session)[j].source_id = ev.documents[2].source_id

\* C12: an item whose extractor returned never ends in error: the only
\* exception that leaves pipeline is one raised by the extraction stage.
C12_OnlyExtractionFailureEndsInError ==
    ev.op = "pipeline_raise" => ev.stage = "extraction"

----------------------------------------------------------------------------
\* POST /extract (routes/extraction.py) and extraction_task (worker/tasks.py).
\* What process_documents does to the stores is the subject of SpecBatch; here
\* it is the list of inputs it hands to pipeline.

MaxRequests == 2   \* POST /extract calls per behaviour
MaxUploads == 2    \* files in one request

\* The files form field: file names, in upload order.
Uploads ==
    { fs \in { <<>>, <<"a.pdf">>, <<"a.pdf", "b.pdf">>, <<"a.pdf", "b.pdf", "c.pdf">> } :
        Len(fs) <= MaxUploads }

NoLink == <<>>

WebLink == <<"https://", "a.example", "/page">>

TubeLink == <<"https://", "youtu.be", "/v1">>

\* The callback_url form field: absent, without and with a protocol.
Callbacks == { NoCallback, <<"backend", "/hook">>, <<"http://", "backend", "/hook">> }

\* settings.worker.backend_callback_url (core/config.py): empty by default.
backend_callback_url == NoCallback

WorkerAuth == {<<"Authorization", "Bearer ai_worker_token">>}

\* dict.get(key, default).
Get(payload, key, default) ==
    IF key \in DOMAIN payload THEN payload[key] ELSE default

\* "youtube.com" in link.lower() or "youtu.be" in link.lower().
IsYouTube(link) ==
    \E k \in 1..Len(link) : link[k] \in {"youtube.com", "youtu.be"}

\* if not callback_url.startswith("http"): callback_url = "https://" + callback_url
WithProtocol(callback_url) ==
    IF callback_url = NoCallback THEN NoCallback
    ELSE IF callback_url[1] \in {"http://", "https://"} THEN callback_url
    ELSE <<"https://">> \o callback_url

PathsOf(file_paths) == { file_paths[k].path : k \in 1..Len(file_paths) }

\* extract_documents_async: 400 without any input; otherwise the files are
\* saved under fresh names, the payload is built and the task is queued;
\* queued = FALSE is extraction_task.delay raising, answered with 500 after
\* the saved files were removed.
Extract(files, url, youtube_url, callback_url, queued) ==
    /\ budget.batches > 0
    /\ budget' = [budget EXCEPT !.batches = @ - 1]
    /\ LET req == MaxRequests + 1 - budget.batches
           saved_file_info == [k \in 1..Len(files) |->
                                 [path |-> <<"uploads", job.saved + k>>, name |-> files[k]]]
           task_payload == [file_paths |-> saved_file_info, url |-> url,
                            youtube_url |-> youtube_url, session_id |-> "s1",
                            callback_url |-> callback_url]
           given == {url, youtube_url} \ {NoLink}
       IN  IF files = <<>> /\ url = NoLink /\ youtube_url = NoLink
           THEN /\ ev' = [op |-> "extract", req |-> req, status |-> 400]
                /\ UNCHANGED job
           ELSE IF queued
           THEN /\ job' = [job EXCEPT
                             !.disk = @ \cup PathsOf(saved_file_info),
                             !.saved = @ + Len(files),
                             !.queue = Append(@, [req |-> req, payload |-> task_payload]),
                             !.accepted = @ \cup { [req |-> req, link |-> l] : l \in given }]
                /\ ev' = [op |-> "extract", req |-> req, status |-> 202]
           ELSE /\ job' = [job EXCEPT !.saved = @ + Len(files)]
                /\ ev' = [op |-> "extract", req |-> req, status |-> 500]
    /\ UNCHANGED <<vstore, mongo, history, redis, now, enabled, redisUp, nextDoc,
                   batch, pool, firstIndex, indexed, purged, answered, talk, work, workspace>>

\* extraction_task up to l.82: the payload is read.
TaskStart ==
    /\ job.task.pc = "idle"
    /\ job.queue # <<>>
    /\ LET task_payload == Head(job.queue).payload
           callback_url == IF Get(task_payload, "callback_url", NoCallback) # NoCallback
                           THEN task_payload.callback_url
                           ELSE backend_callback_url
       IN  job' = [job EXCEPT
                     !.queue = Tail(@),
                     !.task = [pc |-> "opening", req |-> Head(job.queue).req,
                               callback_url |-> WithProtocol(callback_url),
                               file_paths |-> Get(task_payload, "file_paths", <<>>),
                               links |-> Get(task_payload, "links", <<>>),
                               mock_files |-> <<>>, returned |-> FALSE,
                               raised |-> FALSE]]
    /\ ev' = [op |-> "task_start", req |-> Head(job.queue).req]
    /\ UNCHANGED <<vstore, mongo, history, redis, now, enabled, redisUp, nextDoc,
                   batch, pool, budget, firstIndex, indexed, purged, answered, talk, work, workspace>>

otherVars == <<vstore, mongo, history, redis, now, enabled, redisUp, nextDoc,
               batch, pool, budget, firstIndex, indexed, purged, answered, talk, work, workspace>>

\* l.84-87, before the try: one CeleryUploadFile per entry of file_paths, each
\* opening its file.  fail_at = 0: every open succeeds; fail_at = k: the k-th
\* open raises and the exception leaves the task at once.
OpenFiles(fail_at) ==
    /\ job.task.pc = "opening"
    /\ fail_at \in 0..Len(job.task.file_paths)
    /\ IF fail_at = 0
       THEN /\ job' = [job EXCEPT
                         !.task.pc = "running",
                         !.task.mock_files = [k \in 1..Len(job.task.file_paths) |->
                                                 job.task.file_paths[k].path]]
            /\ ev' = [op |-> "files_opened", req |-> job.task.req]
       ELSE /\ job' = [job EXCEPT
                         !.task = NoTask,
                         !.ended = @ \cup PathsOf(job.task.file_paths)]
            /\ ev' = [op |-> "task_end", req |-> job.task.req, outcome |-> "open_failed",
                      file_paths |-> PathsOf(job.task.file_paths)]
    /\ UNCHANGED otherVars

\* The inputs process_documents turns into pipeline calls: every file, then
\* every link as youtube_url or url.
Dispatches(req, mock_files, links) ==
    [k \in 1..Len(mock_files) |-> [req |-> req, type |-> "file", input |-> mock_files[k]]]
    \o [k \in 1..Len(links) |->
          [req |-> req, type |-> IF IsYouTube(links[k]) THEN "youtube_url" ELSE "url",
           input |-> links[k]]]

\* l.89-106: asyncio.run(controller.process_documents(files, links, ...));
\* raises = TRUE is the call raising after it handed out its inputs.
RunController(raises) ==
    /\ job.task.pc = "running"
    /\ job' = [job EXCEPT
                 !.dispatched = @ \o Dispatches(job.task.req, job.task.mock_files,
                                                job.task.links),
                 !.task.returned = ~raises,
                 !.task.pc = IF raises THEN "except" ELSE "callback"]
    /\ ev' = [op |-> "process_documents", req |-> job.task.req, raised |-> raises]
    /\ UNCHANGED otherVars

\* l.108-118: the success callback; post_ok = FALSE is httpx.post raising,
\* which the except clause of the same try catches.
SuccessCallback(post_ok) ==
    /\ job.task.pc = "callback"
    /\ IF job.task.callback_url = NoCallback
       THEN job' = [job EXCEPT !.task.pc = "finally"]
       ELSE IF post_ok
       THEN job' = [job EXCEPT
                      !.posts = Append(@, [req |-> job.task.req,
                                           url |-> job.task.callback_url,
                                           status |-> "result",
                                           headers |-> WorkerAuth]),
                      !.task.pc = "finally"]
       ELSE job' = [job EXCEPT !.task.pc = "except"]
    /\ ev' = [op |-> "success_callback", req |-> job.task.req]
    /\ UNCHANGED otherVars

\* l.120-132: the failure callback, posted without headers; an exception of
\* the post (also the one for a missing URL) is logged; then raise e.
FailureCallback(post_ok) ==
    /\ job.task.pc = "except"
    /\ job' = [job EXCEPT
                 !.posts = IF job.task.callback_url # NoCallback /\ post_ok
                           THEN Append(@, [req |-> job.task.req,
                                           url |-> job.task.callback_url,
                                           status |-> "failed",
                                           headers |-> {}])
                           ELSE @,
                 !.task.pc = "finally",
                 !.task.raised = TRUE]
    /\ ev' = [op |-> "failure_callback", req |-> job.task.req]
    /\ UNCHANGED otherVars

\* l.134-146: finally: every file of mock_files is closed and removed.
Finally ==
    /\ job.task.pc = "finally"
    /\ job' = [job EXCEPT
                 !.disk = @ \ { job.task.mock_files[k] : k \in 1..Len(job.task.mock_files) },
                 !.task = NoTask,
                 !.ended = @ \cup PathsOf(job.task.file_paths)]
    /\ ev' = [op |-> "task_end", req |-> job.task.req,
              outcome |-> IF job.task.raised THEN "failed" ELSE "done",
              file_paths |-> PathsOf(job.task.file_paths)]
    /\ UNCHANGED otherVars

InitWorker ==
    /\ EmptyStores
    /\ InitServices
    /\ enabled = TRUE
    /\ budget = [batches |-> MaxRequests, deletes |-> 0, chats |-> 0, cache_ops |-> 0]

\* One step of the worker process.
WorkerStep ==
    \/ TaskStart
    \/ \E fail_at \in 0..MaxUploads : OpenFiles(fail_at)
    \/ \E raises \in BOOLEAN : RunController(raises)
    \/ \E post_ok \in BOOLEAN : SuccessCallback(post_ok)
    \/ \E post_ok \in BOOLEAN : FailureCallback(post_ok)
    \/ Finally

NextWorker ==
    \/ \E files \in Uploads, url \in {NoLink, WebLink}, youtube_url \in {NoLink, TubeLink},
          callback_url \in Callbacks, queued \in BOOLEAN :
          Extract(files, url, youtube_url, callback_url, queued)
    \/ WorkerStep

SpecWorker == InitWorker /\ [][NextWorker]_vars

\* The Celery worker keeps taking queued tasks and runs each to its end
\* (celery_app.task on extraction_queue): a step of the task that stays
\* possible is eventually taken.
SpecWorkerFair == SpecWorker /\ WF_vars(WorkerStep)

----------------------------------------------------------------------------
\* Properties of SpecWorker.

\* C13: once an execution of extraction_task has ended, however it ended,
\* none of the temporary files named in its payload's file_paths is on disk.
C13_TempFilesDeletedAfterTask ==
    job.ended \cap job.disk = {}

\* C14: every callback POST the worker sent, for a success or for a failure,
\* carries the header Authorization: Bearer ai_worker_token.
C14_EveryCallbackCarriesToken ==
    \A k \in 1..Len(job.posts) : job.posts[k].headers = WorkerAuth

\* The links a request can carry, per request.
AcceptedLinks ==
    { [req |-> r, link |-> l] : r \in 1..MaxRequests, l \in {WebLink, TubeLink} }

\* How often the worker handed link a to the orchestrator under the right name.
TimesDispatched(a) ==
    Cardinality({ k \in 1..Len(job.dispatched) :
                    /\ job.dispatched[k].req = a.req
                    /\ job.dispatched[k].input = a.link
                    /\ job.dispatched[k].type =
                          IF IsYouTube(a.link) THEN "youtube_url" ELSE "url" })

\* C15: every link of an accepted POST /extract is eventually dispatched by
\* the worker to the orchestrator, as youtube_url when it names YouTube and as
\* url otherwise, and never more than once.
C15_AcceptedLinkDispatchedOnce ==
    \A a \in AcceptedLinks :
        /\ [](a \in job.accepted => <>(TimesDispatched(a) = 1))
        /\ [](TimesDispatched(a) <= 1)

----------------------------------------------------------------------------
\* ChatService.chat (services/chat_service.py l.209-305) as the event loop
\* runs it: a call is suspended at await self.llm.ainvoke(prompt), and other
\* calls run in between.

MaxTalks == 3

\* The filter search_similar_chunks builds from its arguments, as the set of
\* its equality clauses: both under $and, the one given, or none.
Filters(session_id, source_id) ==
    IF session_id # NoSession /\ source_id # NoSource
    THEN {<<"session_id", session_id>>, <<"source_id", source_id>>}
    ELSE IF session_id # NoSession THEN {<<"session_id", session_id>>}
    ELSE IF source_id # NoSource THEN {<<"source_id", source_id>>}
    ELSE {}

\* chat up to the LLM call: the cache probe, and on a miss retrieval and the
\* history read; the call then waits for the LLM.
ChatBegin(q, s, x) ==
    /\ budget.chats > 0
    /\ budget' = [budget EXCEPT !.chats = @ - 1]
    /\ LET session_id == SessionOrDefault(s)
           id == MaxTalks + 1 - budget.chats
           cached_response == GetCachedResponse(redis, now, q, x)
           results == SearchSimilarChunks(vstore, session_id, x)
       IN  IF cached_response # NoRecord
           THEN /\ ev' = [op |-> "chat_cached", id |-> id, session |-> session_id]
                /\ UNCHANGED talk
           ELSE /\ talk' = [talk EXCEPT !.waiting = @ \cup
                              {[id |-> id, query |-> q, session |-> session_id,
                                source |-> x, context_found |-> results # <<>>]}]
                /\ ev' = [op |-> "chat_begin", id |-> id, session |-> session_id,
                          given |-> [session_id |-> s, source_id |-> x],
                          filter |-> Filters(session_id, x)]
    /\ UNCHANGED <<history, redis, now, redisUp, answered>>
    /\ UNCHANGED <<vstore, mongo, nextDoc, batch, pool, firstIndex, indexed, purged,
                   enabled, job, work, workspace>>

\* An error answer that is the bare exception text.
ErrorAnswerBare(e) == <<e>>

\* f"Error: Failed to generate response. ({str(e)})", as its parts.
ErrorAnswer(e) == <<"Error:", " Failed to generate response. (", e, ")">>

\* The response dict of chat: the answer, and error only on the except path.
ChatResponse(c, llm_ok) ==
    IF llm_ok
    THEN [answer |-> <<"answer of LLM">>, session_id |-> c.session,
          context_found |-> c.context_found]
    ELSE [answer |-> ErrorAnswer("LLM error"), session_id |-> c.session,
          context_found |-> c.context_found, error |-> TRUE]

\* chat from the return of the LLM call: on an answer, the two history writes
\* (skipped for "default") and the cache write; on an exception, the error
\* response and nothing else.
ChatEnd(c, llm_ok) ==
    /\ IF llm_ok
       THEN /\ history' = IF c.session # "default"
                          THEN [history EXCEPT ![c.session] = @ + 2]
                          ELSE history
            /\ talk' = [talk EXCEPT
                          !.waiting = @ \ {c},
                          !.messages = IF c.session # "default"
                                       THEN [@ EXCEPT ![c.session] = @ \o
                                               <<[id |-> c.id, role |-> "user"],
                                                 [id |-> c.id, role |-> "assistant"]>>]
                                       ELSE @]
            /\ redis' = CacheResponse(redis, now, c.query,
                            [session_id |-> c.session, context_found |-> c.context_found],
                            c.source, FALSE)
       ELSE /\ talk' = [talk EXCEPT !.waiting = @ \ {c}]
            /\ UNCHANGED <<history, redis>>
    /\ ev' = [op |-> "chat_end", id |-> c.id, session |-> c.session, error |-> ~llm_ok,
              response |-> ChatResponse(c, llm_ok)]
    /\ UNCHANGED <<now, redisUp, answered, budget>>
    /\ UNCHANGED <<vstore, mongo, nextDoc, batch, pool, firstIndex, indexed, purged,
                   enabled, job, work, workspace>>

\* The LLM call of the waiting chat with the given id returns or raises.
LlmReturns(id, llm_ok) ==
    \E c \in talk.waiting : c.id = id /\ ChatEnd(c, llm_ok)

InitTalk ==
    /\ EmptyStores
    /\ InitServices
    /\ enabled = TRUE
    /\ budget = [batches |-> 0, deletes |-> 0, chats |-> MaxTalks, cache_ops |-> 0]

NextTalk ==
    \/ \E q \in Queries, s \in Sessions \cup {NoSession}, x \in {NoSource, NewDocId(1)} :
          ChatBegin(q, s, x)
    \/ \E id \in 1..MaxTalks, llm_ok \in BOOLEAN : LlmReturns(id, llm_ok)

SpecTalk == InitTalk /\ [][NextTalk]_vars

\* C16: in every session's messages array the messages stand in the order in
\* which their chat requests were submitted: a message of request A never
\* stands after a message of a request submitted after A.
C16_MessagesInRequestOrder ==
    \A s \in Sessions :
        \A i, j \in 1..Len(talk.messages[s]) :
            i < j => talk.messages[s][i].id <= talk.messages[s][j].id

\* C17: a chat whose LLM call raised returns a response whose answer starts
\* with "Error:" and whose error field is true, and that call changes neither
\* the chat history nor the cache.
C17_LlmFailureReturnsErrorOnly ==
    [][(talk'.waiting # talk.waiting /\ ev'.op = "chat_end" /\ ev'.error) =>
          /\ ev'.response.answer[1] = "Error:"
          /\ "error" \in DOMAIN ev'.response /\ ev'.response.error = TRUE
          /\ history' = history
          /\ talk'.messages = talk.messages
          /\ redis' = redis
    ]_vars

\* A chat of a named session whose LLM call raised, after an earlier chat of
\* that session was answered.
C17_Witness ==
    /\ ev.op = "chat_end"
    /\ ev.error
    /\ ev.session # "default"
    /\ history[ev.session] > 0

\* C18: the filter chat passes to the vector query is session_id = S AND
\* source_id = X when the caller gives both, the single equality on the one
\* given when the caller gives exactly one, and no filter when the caller
\* gives neither.
C18_FilterFollowsCallerArguments ==
    ev.op = "chat_begin" =>
        ev.filter = Filters(ev.given.session_id, ev.given.source_id)

----------------------------------------------------------------------------
\* Duplicate submissions.

\* The records of hash h in the files of session s.
RecordsOfHash(coll, s, h) ==
    { j \in 1..Len(FilesOf(coll, s)) : FilesOf(coll, s)[j].file_hash = h }

\* C19 (SpecBatch): when a batch that carried the same file bytes twice has
\* returned with both items successful, the session's files holds exactly one
\* record of that hash and the chunks of (hash, session) stand under at most
\* one source_id.
C19_ConcurrentDuplicatesAbsorbed ==
    (/\ ev.op = "batch_done"
     /\ Len(ev.documents) = 2
     /\ ev.documents[1].input = ev.documents[2].input
     /\ ev.documents[1].input.kind = "file"
     /\ \A k \in 1..2 : ev.documents[k].status = "success")
    => LET h == ContentHash(ev.documents[1].input)
           rows == RowsOf(vstore, h, SessionOrDefault(ev.session))
       IN  /\ Cardinality(RecordsOfHash(mongo, ev.session, h)) = 1
           /\ Cardinality({ rows[k].source_id : k \in 1..Len(rows) }) <= 1

\* C20 (Spec): a pipeline call for a URL whose MD5 hash already has a chunk
\* under its session does not reach the extractor (it returns the
\* "fast_tracked" sentinel instead).
C20_UrlReingestFastTracked ==
    (ev.op = "pipeline_extract" /\ ev.hash.alg = "md5") =>
        RowsOf(vstore, ev.hash, SessionOrDefault(ev.session)) = <<>>

----------------------------------------------------------------------------
\* The record-to-chunks join.

\* No process_documents call is in progress.
Quiescent == \A w \in AllWorkers : ~batch[w].active

\* C21 (Spec): when a batch has returned and no other batch is running, every
\* record it saved for an item extracted from non-empty content has at least
\* one chunk in the vector store under the record's source_id and the
\* batch's session.
C21_SavedRecordJoinsItsChunks ==
    [][\A w \in AllWorkers :
          (Responds(w) /\ Quiescent') =>
              \A k \in 1..Len(batch[w].tasks) :
                  LET t == batch[w].tasks[k]
                  IN  (t.pc = "done" /\ t.result.isdir /\ t.result.nonempty) =>
                         /\ HasRecord(mongo', batch[w].session, t.result.base)
                         /\ \E g \in 1..Len(vstore') :
                               /\ vstore'[g].source_id = t.result.base
                               /\ vstore'[g].session_id = SessionOrDefault(batch[w].session)
                               /\ vstore'[g].n > 0
    ]_vars

----------------------------------------------------------------------------
\* The stages of pipeline between the extractor and the record: the image
\* stage (pipeline l.283-299, services/ocr_service.py, services/vlm_service.py)
\* and run_agent (services/llm_service.py).  Texts are their character
\* counts; an OCR confidence is in hundredths.

MaxImages == 2

OCR_THRESHOLD == 70

MIN_IMAGE_BYTES == 5120

MAX_IMAGES_TO_ANALYZE == 10

OCR_SKIP_CHARS == 50

LLM_TEXT_LIMIT == 3500

MIN_CONTENT_CHARS == 10

\* An extracted image: its file size, and what OCR reads from it.
ImageKinds ==
    [size : {4000, MIN_IMAGE_BYTES, 6000}, confidence : {30, OCR_THRESHOLD, 90},
     chars : {0, 9, 10}]

ImageLists == UNION { [1..n -> ImageKinds] : n \in 0..MaxImages }

\* content.txt: chars is what preprocess_text keeps, noise what it removes
\* (a "Page 1 of 2" footer), both without surrounding whitespace.
Texts == [chars : {0, 1, MIN_CONTENT_CHARS, 11, 51}, noise : {0, 11}]

\* should_use_ocr: confidence >= threshold and more than 5 characters.
ShouldUseOcr(confidence, chars) == confidence >= OCR_THRESHOLD /\ chars > 5

RECURSIVE SumChars(_, _)
SumChars(imgs, ks) ==
    IF ks = {} THEN 0
    ELSE LET k == CHOOSE x \in ks : TRUE
         IN  imgs[k].chars + SumChars(imgs, ks \ {k})

\* run_ocr_on_images: the images it reads, skipping files under 5 KB.
OcrRead(imgs) == { k \in 1..Len(imgs) : imgs[k].size >= MIN_IMAGE_BYTES }

\* maybe_run_ocr: nothing when content.txt has more than 50 characters or
\* there is no image; otherwise OCR on the images, and content.txt is
\* rewritten with the texts found, joined by blank lines.
MaybeRunOcr(text, imgs) ==
    IF text.chars + text.noise > OCR_SKIP_CHARS \/ imgs = <<>>
    THEN [read |-> {}, text |-> text]
    ELSE LET found == { k \in OcrRead(imgs) : imgs[k].chars > 0 }
         IN  [read |-> OcrRead(imgs),
              text |-> IF found = {} THEN text
                       ELSE [chars |-> SumChars(imgs, found) + 2 * (Cardinality(found) - 1),
                             noise |-> 0]]

\* sorted by size, largest first; equal sizes keep their order.
RECURSIVE BySizeDescending(_, _)
BySizeDescending(imgs, ks) ==
    IF ks = {} THEN <<>>
    ELSE LET k == CHOOSE x \in ks : \A y \in ks :
                      \/ imgs[x].size > imgs[y].size
                      \/ imgs[x].size = imgs[y].size /\ x <= y
         IN  <<k>> \o BySizeDescending(imgs, ks \ {k})

\* analyze_extracted_images: the images handed to the vision model: those
\* over 5 KB, largest first, at most ten.
ImagesToProcess(imgs) ==
    LET valid_images == BySizeDescending(imgs,
                            { k \in 1..Len(imgs) : imgs[k].size > MIN_IMAGE_BYTES })
    IN  SubSeq(valid_images, 1,
               IF Len(valid_images) > MAX_IMAGES_TO_ANALYZE
               THEN MAX_IMAGES_TO_ANALYZE ELSE Len(valid_images))

\* if use_ocr_vlm and images: maybe_run_ocr, then analyze_extracted_images;
\* vlm_ok = FALSE is the vision endpoint failing for every image.
ImageStage(vlm_ok) ==
    /\ work.pc = "extracted"
    /\ IF work.use_ocr_vlm /\ work.images # <<>>
       THEN LET ocr == MaybeRunOcr(work.text, work.images)
                calls == ImagesToProcess(work.images)
            IN  work' = [work EXCEPT
                           !.pc = "imaged",
                           !.text = ocr.text,
                           !.ocr_read = ocr.read,
                           !.vlm_calls = calls,
                           !.images_analysis = IF vlm_ok THEN Len(calls) ELSE 0]
       ELSE work' = [work EXCEPT !.pc = "imaged"]
    /\ ev' = [op |-> "image_stage"]
    /\ UNCHANGED <<vstore, mongo, history, redis, now, enabled, redisUp, nextDoc,
                   batch, pool, budget, firstIndex, indexed, purged, answered, job, talk, workspace>>

\* A guardrail that asks the LLM whenever there is any text at all.
HasContentAnyText(chars, table_count, images) ==
    chars > 0 \/ table_count > 0 \/ images > 0

\* has_content: len(text_for_llm.strip()) > 10 or table_count > 0 or
\* len(all_images_data) > 0, text_for_llm being the first 3500 characters.
HasContent(chars, table_count, images) ==
    \/ (IF chars > LLM_TEXT_LIMIT THEN LLM_TEXT_LIMIT ELSE chars) > MIN_CONTENT_CHARS
    \/ table_count > 0
    \/ images > 0

\* The record run_agent writes without asking the LLM.
DefaultRecord ==
    [language |-> "unknown", summary |-> <<"No extractable text found. ", "basic_summary">>,
     tables_count |-> 0]

\* run_agent: preprocess_text keeps work.text.chars characters; without
\* content the default record is written and the LLM is not called; otherwise
\* the LLM is called and its answer (llm_ok) or the defaults fill the record.
RunAgent(llm_ok) ==
    /\ work.pc = "imaged"
    /\ IF ~HasContent(work.text.chars, work.tables, work.images_analysis)
       THEN work' = [work EXCEPT !.pc = "structured", !.llm_called = FALSE,
                                 !.parsed = DefaultRecord]
       ELSE work' = [work EXCEPT
                       !.pc = "structured",
                       !.llm_called = TRUE,
                       !.parsed = [language |-> IF llm_ok THEN "detected" ELSE "unknown",
                                   summary |-> IF llm_ok THEN <<"summary of LLM">>
                                               ELSE <<"Document processed successfully">>,
                                   tables_count |-> work.tables]]
    /\ ev' = [op |-> "run_agent"]
    /\ UNCHANGED <<vstore, mongo, history, redis, now, enabled, redisUp, nextDoc,
                   batch, pool, budget, firstIndex, indexed, purged, answered, job, talk, workspace>>

\* A workspace as an extractor leaves it.
InitStages ==
    /\ EmptyStores
    /\ InitCore
    /\ enabled = TRUE
    /\ budget = [batches |-> 0, deletes |-> 0, chats |-> 0, cache_ops |-> 0]
    /\ \E text \in Texts, tables \in 0..1, images \in ImageLists, use_ocr_vlm \in BOOLEAN :
          work = [pc |-> "extracted", text |-> text, extracted |-> text,
                  tables |-> tables, images |-> images, use_ocr_vlm |-> use_ocr_vlm,
                  ocr_read |-> {}, vlm_calls |-> <<>>, images_analysis |-> 0,
                  llm_called |-> FALSE, parsed |-> NoRecord]

NextStages ==
    \/ \E vlm_ok \in BOOLEAN : ImageStage(vlm_ok)
    \/ \E llm_ok \in BOOLEAN : RunAgent(llm_ok)

SpecStages == InitStages /\ [][NextStages]_vars

\* C22: with the image stage enabled, an image of at least 5 KB is handed to
\* the vision model if and only if OCR did not return confidence >= 0.70 with
\* at least 10 characters for it.
C22_VlmOnlyWhenOcrInsufficient ==
    (work.pc \in {"imaged", "structured"} /\ work.use_ocr_vlm) =>
        \A k \in 1..Len(work.images) :
            work.images[k].size >= MIN_IMAGE_BYTES =>
                ((\E j \in 1..Len(work.vlm_calls) : work.vlm_calls[j] = k)
                 <=> ~(work.images[k].confidence >= OCR_THRESHOLD
                       /\ work.images[k].chars >= 10))

\* C23, as stated: run_agent skips the LLM call and writes the default record
\* exactly when the preprocessed text is empty and there are no tables and no
\* image-analysis records.
C23_LlmSkippedIffNothingAtAll ==
    work.pc = "structured" =>
        /\ ~work.llm_called <=>
              (work.text.chars = 0 /\ work.tables = 0 /\ work.images_analysis = 0)
        /\ ~work.llm_called => work.parsed = DefaultRecord

\* C23, amended: run_agent skips the LLM call and writes the default record
\* exactly when the preprocessed text has at most 10 characters and there are
\* no tables and no image-analysis records.
C23_LlmSkippedIffAtMostTenChars ==
    work.pc = "structured" =>
        /\ ~work.llm_called <=>
              (work.text.chars <= 10 /\ work.tables = 0 /\ work.images_analysis = 0)
        /\ ~work.llm_called => work.parsed = DefaultRecord

\* A document with ten characters of text and nothing else, structured
\* without the LLM.
C23_Witness ==
    /\ work.pc = "structured"
    /\ work.text.chars = 10
    /\ ~work.llm_called
    /\ work.parsed.language = "unknown"


----------------------------------------------------------------------------
\* Workspace directories (controllers/extraction_controller.py l.187-234).

\* C24: every per-document workspace directory an ingest created is gone once
\* the batch that created it has returned, whether the item succeeded or
\* failed after the directory was made; no directory is left on disk that
\* belongs to a batch that has responded.
C24_WorkspaceGoneAfterBatch ==
    \A d \in workspace : ~d.returned


----------------------------------------------------------------------------
\* ChatService.chat_stream (services/chat_service.py l.307-362) under the
\* /chat/stream route (routes/chat.py l.72-105): a generator the response
\* iterates, one next() at a time, while other streams run in between.

MaxStreams == 2
MaxTokens == 2

\* chunk.content of the chunks the LLM streams, as character sequences.
Tokens == { <<"a">>, <<"b", "c">> }

StreamSessions == {NoSession, "s1"}

NoStream == [pc |-> "none"]

streamFrame == <<vstore, mongo, redis, now, enabled, redisUp, nextDoc, batch, pool,
                 firstIndex, indexed, purged, answered, job, workspace>>

RECURSIVE Join(_)
\* "".join(full_response)
Join(parts) == IF parts = <<>> THEN <<>> ELSE Head(parts) \o Join(Tail(parts))

\* An answer that keeps only the last token streamed.
CompleteAnswerLastToken(full_response) ==
    IF full_response = <<>> THEN <<>> ELSE full_response[Len(full_response)]

\* l.356: complete_answer
CompleteAnswer(full_response) == Join(full_response)

\* save_chat_message (services/db_service.py l.246-290): $push of the message
\* and $inc of message_count.
SaveChatMessage(id, session_id, role, content) ==
    /\ talk' = [talk EXCEPT !.messages[session_id] =
                   @ \o <<[id |-> id, role |-> role, content |-> content]>>]
    /\ history' = [history EXCEPT ![session_id] = @ + 1]

SetStream(id, call) == work' = [work EXCEPT !.calls[id] = call]

\* The first next(): l.328-348, the session default, retrieval, the history
\* read and the prompt; the generator then waits for the first chunk.
StreamBegin(id, q, s, x) ==
    /\ work.calls[id] = NoStream
    /\ budget.chats > 0
    /\ budget' = [budget EXCEPT !.chats = @ - 1]
    /\ LET session_id == SessionOrDefault(s)
           results == SearchSimilarChunks(vstore, session_id, x)
       IN  /\ SetStream(id, [pc |-> "streaming", message |-> q, session |-> session_id,
                             full_response |-> <<>>, yielded |-> <<>>,
                             seen |-> IF session_id # "default"
                                      THEN Len(talk.messages[session_id]) ELSE 0])
           /\ ev' = [op |-> "stream_begin", id |-> id, session |-> session_id,
                     context_found |-> results # <<>>]
    /\ UNCHANGED <<talk, history>>
    /\ UNCHANGED streamFrame

\* l.349-352: one chunk arrives; its token is appended and yielded.
LlmYields(id, token) ==
    /\ work.calls[id].pc = "streaming"
    /\ Len(work.calls[id].full_response) < MaxTokens
    /\ SetStream(id, [work.calls[id] EXCEPT !.full_response = Append(@, token),
                                            !.yielded = Append(@, token)])
    /\ ev' = [op |-> "yield", id |-> id, token |-> token]
    /\ UNCHANGED <<talk, history, budget>>
    /\ UNCHANGED streamFrame

\* l.349 and l.355-357: the LLM stream is exhausted, the loop ends, and for a
\* session other than "default" the user message is saved.
StreamExhausted(id) ==
    /\ work.calls[id].pc = "streaming"
    /\ LET c == work.calls[id]
       IN  IF c.session # "default"
           THEN /\ SaveChatMessage(id, c.session, "user", c.message)
                /\ SetStream(id, [c EXCEPT !.pc = "saving"])
           ELSE /\ SetStream(id, [c EXCEPT !.pc = "done"])
                /\ UNCHANGED <<talk, history>>
    /\ ev' = [op |-> "stream_exhausted", id |-> id]
    /\ UNCHANGED budget
    /\ UNCHANGED streamFrame

\* l.358: the assistant message, and the generator returns.
SaveAssistant(id) ==
    /\ work.calls[id].pc = "saving"
    /\ LET c == work.calls[id]
       IN  /\ SaveChatMessage(id, c.session, "assistant", CompleteAnswer(c.full_response))
           /\ SetStream(id, [c EXCEPT !.pc = "done"])
    /\ ev' = [op |-> "stream_done", id |-> id]
    /\ UNCHANGED budget
    /\ UNCHANGED streamFrame

\* l.360-362: self.llm.stream raises, at its start or between two chunks; the
\* error text is yielded and the generator returns.
LlmStreamRaises(id) ==
    /\ work.calls[id].pc = "streaming"
    /\ SetStream(id, [work.calls[id] EXCEPT
                         !.pc = "failed",
                         !.yielded = Append(@, <<"\n\nError: ", "LLM error">>)])
    /\ ev' = [op |-> "stream_error", id |-> id]
    /\ UNCHANGED <<talk, history, budget>>
    /\ UNCHANGED streamFrame

\* The client goes away and the response closes the generator where it is
\* suspended, at the yield of l.352: GeneratorExit is no Exception, so the
\* except clause does not run.
ConsumerCloses(id) ==
    /\ work.calls[id].pc = "streaming"
    /\ work.calls[id].yielded # <<>>
    /\ SetStream(id, [work.calls[id] EXCEPT !.pc = "closed"])
    /\ ev' = [op |-> "stream_closed", id |-> id]
    /\ UNCHANGED <<talk, history, budget>>
    /\ UNCHANGED streamFrame

InitStream ==
    /\ EmptyStores
    /\ InitCore
    /\ enabled = TRUE
    /\ budget = [batches |-> 0, deletes |-> 0, chats |-> MaxStreams, cache_ops |-> 0]
    /\ work = [pc |-> "streams", calls |-> [id \in 1..MaxStreams |-> NoStream]]

NextStream ==
    \/ \E id \in 1..MaxStreams, q \in Queries, s \in StreamSessions :
          StreamBegin(id, q, s, NoSource)
    \/ \E id \in 1..MaxStreams, token \in Tokens : LlmYields(id, token)
    \/ \E id \in 1..MaxStreams : StreamExhausted(id)
    \/ \E id \in 1..MaxStreams : SaveAssistant(id)
    \/ \E id \in 1..MaxStreams : LlmStreamRaises(id)
    \/ \E id \in 1..MaxStreams : ConsumerCloses(id)

SpecStream == InitStream /\ [][NextStream]_vars

\* The positions of the messages stream id wrote with the given role.
Written(id, role) ==
    UNION { { [session |-> s, at |-> k] : k \in { k \in 1..Len(talk.messages[s]) :
                  /\ talk.messages[s][k].id = id
                  /\ talk.messages[s][k].role = role } } : s \in Sessions }

Started == { id \in 1..MaxStreams : work.calls[id] # NoStream }

\* C25: a stream of a session other than "default" appends its user message
\* and its assistant message exactly once each, in its own session, user
\* first, only after its last token has been yielded, and the assistant
\* content is the concatenation of the yielded tokens in order; a stream
\* whose LLM stream raised, a stream of "default", and a stream still
\* yielding have appended nothing.
C25_StreamHistoryAfterLastToken ==
    \A id \in Started :
        LET c == work.calls[id]
            users == Written(id, "user")
            assistants == Written(id, "assistant")
        IN  /\ Cardinality(users) <= 1
            /\ Cardinality(assistants) <= 1
            /\ c.pc \in {"streaming", "failed", "closed"} => users \cup assistants = {}
            /\ c.session = "default" => users \cup assistants = {}
            /\ assistants # {} => users # {}
            /\ \A u \in users :
                  /\ u.session = c.session
                  /\ c.pc \in {"saving", "done"}
                  /\ talk.messages[u.session][u.at].content = c.message
                  /\ \A a \in assistants : u.at < a.at
            /\ \A a \in assistants :
                  /\ a.session = c.session
                  /\ c.pc = "done"
                  /\ talk.messages[a.session][a.at].content = Join(c.yielded)
            /\ (c.pc = "done" /\ c.session # "default") =>
                  Cardinality(users) = 1 /\ Cardinality(assistants) = 1

\* Two streams of one session have both finished, one of them after yielding
\* two tokens, and the history holds the four messages.
C25_Witness ==
    /\ \A id \in 1..MaxStreams :
          /\ work.pc = "streams"
          /\ work.calls[id].pc = "done"
          /\ work.calls[id].session = "s1"
    /\ \E id \in 1..MaxStreams : Len(work.calls[id].yielded) = 2
    /\ Len(talk.messages["s1"]) = 4


----------------------------------------------------------------------------
\* Cache failures (services/cache_service.py l.40-56, l.76-166).

----------------------------------------------------------------------------
\* Session isolation of chat answers (services/cache_service.py l.58-68,
\* services/chat_service.py l.235-248 and l.284-295).

\* C27: the response of a chat made with session_id = B carries session_id B
\* and reports the context found among the chunks of B under the caller's
\* filter, whatever chats were made before in other sessions with the same
\* query and source_id.
C27_AnswerComesFromOwnSession ==
    ev.op = "chat" =>
        /\ ev.returned_session = ev.session
        /\ ev.context_found =
              (SearchSimilarChunks(vstore, ev.session, ev.source) # <<>>)


----------------------------------------------------------------------------
\* Two processes ingesting at once, a record save that fails, and a worker
\* that is lost in mid-task (controllers/extraction_controller.py l.211-221,
\* worker/celery_app.py l.15-29: task_acks_late, task_reject_on_worker_lost).

RaceBatches == 2
MaxKills == 1

RaceShapes == { << [kind |-> "file", data |-> "B1"] >> }

\* l.214-221: save_batch_to_mongodb raises, the exception is logged, and the
\* response is built as after a save.
BatchFinishSaveFails(w) ==
    /\ batch[w].active
    /\ \A i \in 1..Len(batch[w].tasks) : batch[w].tasks[i].pc \in {"done", "failed"}
    /\ \E i \in 1..Len(batch[w].tasks) :
          batch[w].tasks[i].pc = "done" /\ batch[w].tasks[i].result.isdir
    /\ LET s == batch[w].session
           ts == batch[w].tasks
       IN  ev' = [op |-> "batch_done", session |-> s, saved |-> FALSE,
                  documents |-> [k \in 1..Len(ts) |-> DocumentStatus(ts[k])]]
    /\ workspace' = CleanUp(workspace, w, batch[w].tasks)
    /\ batch' = [batch EXCEPT ![w] = Idle]
    /\ purged' = purged \ {batch[w].session}
    /\ UNCHANGED <<vstore, mongo, nextDoc, pool, budget, firstIndex, indexed, enabled>>
    /\ UNCHANGED chatVars

\* The worker process dies during the task; the message was not acknowledged
\* (acks_late) and is rejected (reject_on_worker_lost), so the broker delivers
\* it again and process_documents starts over with the same arguments.  What
\* the lost run wrote to the stores and to the disk stays.
WorkerLost(w) ==
    /\ batch[w].active
    /\ budget.kills > 0
    /\ budget' = [budget EXCEPT !.kills = @ - 1]
    /\ batch' = [batch EXCEPT ![w].tasks =
                    [i \in 1..Len(batch[w].tasks) |-> Task(batch[w].tasks[i].input)]]
    /\ ev' = [op |-> "redelivered", session |-> batch[w].session]
    /\ UNCHANGED <<vstore, mongo, nextDoc, pool, firstIndex, indexed, purged, enabled,
                   workspace>>
    /\ UNCHANGED chatVars

InitRace ==
    /\ EmptyStores
    /\ InitData
    /\ pool = AllWorkers
    /\ work = NoWork
    /\ enabled = TRUE
    /\ budget = [batches |-> RaceBatches, deletes |-> 0, chats |-> 0, cache_ops |-> 0,
                 kills |-> MaxKills]

NextRace ==
    \/ \E w \in AllWorkers, s \in BatchSessions, items \in RaceShapes : BatchStart(w, s, items)
    \/ \E w \in AllWorkers : \E i \in 1..Len(batch[w].tasks) : PipelineStart(w, i)
    \/ \E w \in AllWorkers : \E i \in 1..Len(batch[w].tasks) : ExtractFail(w, i)
    \/ \E w \in AllWorkers : \E i \in 1..Len(batch[w].tasks) : PipelineFinish(w, i)
    \/ \E w \in AllWorkers : BatchFinish(w)
    \/ \E w \in AllWorkers : BatchFinishSaveFails(w)
    \/ \E w \in AllWorkers : WorkerLost(w)

SpecRace == InitRace /\ [][NextRace]_vars

----------------------------------------------------------------------------
\* Chunks and their records (pipeline/document_pipeline.py l.124-155 and
\* l.410-422, controllers/extraction_controller.py l.168-226).

\* C28: at every quiescent point, whenever the vector store holds a chunk
\* with file_hash H and session_id S, the files array of session S holds a
\* record with file_hash H.
C28_EveryChunkHasItsRecord ==
    Quiescent =>
        \A k \in 1..Len(vstore) :
            RecordsOfHash(mongo, vstore[k].session_id, vstore[k].file_hash) # {}


----------------------------------------------------------------------------
\* Callbacks of extraction_task (worker/tasks.py l.59-75 and l.89-132).

\* The callbacks posted for request req.
PostsOf(req) == SelectSeq(job.posts, LAMBDA p : p.req = req)

\* C29: when an execution of extraction_task with a callback URL ends, it has
\* sent exactly one callback: the success callback if and only if
\* process_documents returned a result, the failure callback if and only if
\* it raised; and a task whose process_documents returned is not marked
\* failed.
C29_ExactlyOneCallbackMatchingOutcome ==
    [][ (job.task.pc = "finally" /\ job'.task = NoTask
            /\ job.task.callback_url # NoCallback) =>
            /\ Len(PostsOf(job.task.req)) = 1
            /\ (PostsOf(job.task.req)[1].status = "result") <=> job.task.returned
            /\ (PostsOf(job.task.req)[1].status = "failed") <=> ~job.task.returned
            /\ job.task.returned => ~job.task.raised ]_vars


----------------------------------------------------------------------------
\* DELETE /documents among sessions that hold the same file (routes/delete.py,
\* services/memory_service.py l.301-361, services/db_service.py l.162-238).

DeleteSessions == {"s1", PaddedSession, "s2"}

NextDelete ==
    \/ \E w \in AllWorkers, s \in DeleteSessions, items \in RaceShapes : BatchStart(w, s, items)
    \/ \E w \in AllWorkers : \E i \in 1..Len(batch[w].tasks) : PipelineStart(w, i)
    \/ \E w \in AllWorkers : \E i \in 1..Len(batch[w].tasks) : ExtractFail(w, i)
    \/ \E w \in AllWorkers : \E i \in 1..Len(batch[w].tasks) : PipelineFinish(w, i)
    \/ \E w \in AllWorkers : BatchFinish(w)
    \/ \E s \in DeleteSessions, x \in DocIds \cup {UnknownId} : DeleteDocument(s, x)
    \/ \E s \in DeleteSessions : DeleteSession(s)

SpecDelete == Init /\ [][NextDelete]_vars

\* The chunks and the session document of session t.
ChunksOfSession(store, t) == SelectSeq(store, LAMBDA g : g.session_id = t)
DocumentOfSession(coll, t) == SelectSeq(coll, LAMBDA d : d.id = t)

\* The steps DELETE /documents can take when called with session id s.
DeleteCall(s) ==
    (\E x \in DocIds \cup {UnknownId} : DeleteDocument(s, x)) \/ DeleteSession(s)

\* A file whose hash another session still holds is fast-tracked into a
\* session that does not hold it yet: chunks are cloned, no extractor runs.
ClonedFromRemainingHolder ==
    \A w \in AllWorkers : \A i \in 1..Len(batch[w].tasks) :
        (FileStart(w, i)
            /\ CheckHashExists(vstore, TaskHash(w, i), NoSession)
            /\ ~CheckHashExists(vstore, TaskHash(w, i), batch[w].session))
        => /\ batch'[w].tasks[i].pc = "done"
           /\ ~batch'[w].tasks[i].result.isdir
           /\ CheckHashExists(vstore', TaskHash(w, i), batch[w].session)

\* C30: deleting a document by (S1, X), or the whole session S1, leaves every
\* chunk and every record of every other session as it was, clones of the
\* same file included; and a file whose hash is still held by another
\* session is fast-tracked into a session that does not hold it yet.
C30_DeleteLeavesOtherSessions ==
    [][ /\ \A s \in DeleteSessions :
             DeleteCall(s)
             => \A t \in DeleteSessions \ {s} :
                   /\ ChunksOfSession(vstore', t) = ChunksOfSession(vstore, t)
                   /\ DocumentOfSession(mongo', t) = DocumentOfSession(mongo, t)
        /\ ClonedFromRemainingHolder ]_vars

\* C30, amended: the delete acts on the session whose id is S1 with its
\* surrounding whitespace stripped, and leaves every chunk and every record
\* of every session other than that one as it was, clones of the same file
\* included; and a file whose hash is still held by another session is
\* fast-tracked into a session that does not hold it yet.
C30_DeleteLeavesSessionsOtherThanStripped ==
    [][ /\ \A s \in DeleteSessions :
             DeleteCall(s)
             => \A t \in DeleteSessions \ {StripId(s)} :
                   /\ ChunksOfSession(vstore', t) = ChunksOfSession(vstore, t)
                   /\ DocumentOfSession(mongo', t) = DocumentOfSession(mongo, t)
        /\ ClonedFromRemainingHolder ]_vars

\* A file first indexed by s1 has just been cloned into a session from the
\* chunks of s2 alone: s1 has been deleted and the clone in s2 has remained.
C30_Witness ==
    /\ ev.op = "pipeline_return"
    /\ ev.outcome = "cloned"
    /\ ev.holders = {"s2"}
    /\ ev.copied # NoRecord
    /\ firstIndex[ev.hash].session = "s1"
    /\ budget.deletes < MaxDeletes
    /\ ChunksOfSession(vstore, "s2") # <<>>
    /\ ChunksOfSession(vstore, ev.session) # <<>>

====
